---- MODULE Spec2Model ----
(***************************************************************************)
(* Client-side synchronisation of the brainstorm whiteboard.               *)
(*                                                                         *)
(* BrainstormBoard (client A) keeps a local tldraw store, applies the      *)
(* batches delivered by subscribeToWhiteboard to it, folds the local       *)
(* change notifications of store.listen into the pendingChanges buffer and *)
(* pushes a snapshot of that buffer 500 ms after the last local edit.      *)
(* CollaborativeCursors filters the presence stream into otherUsers.       *)
(*                                                                         *)
(* Spec           : one mounted board (client A) with readOnly = false and *)
(*                  its store listener installed, the document store       *)
(*                  behind it, and other clients writing to that store.    *)
(* SpecTwoClients : client A, the document store and a second subscribed   *)
(*                  board (client B) that only watches.                    *)
(* SpecCursors    : the CollaborativeCursors component of client A.        *)
(***************************************************************************)
EXTENDS Integers, Sequences, FiniteSets, TLC

\* ------------------------------------------------------------------ bounds
MaxTime == 1200
MaxEdits == 3
MaxRecordsPerEdit == 1
MaxRemote == 2
MaxOther == 1
MaxUsers == 2
MaxNow == 200
MaxToggles == 2
MaxPublishes == 3

\* ------------------------------------------------------- program constants
DebounceMs == 500
StaleMs == 60000
TickMs == 100
ThrottleMs == 100
\* Date.now() when the board is mounted; lastBroadcastRef starts at 0
MountEpoch == 1000000000

\* --------------------------------------------------------------- universes
Ids == {"r1", "r2"}
\* ids that another client mints; "r1" is minted by client A alone
ForeignIds == {"r2"}
Payloads == {"A", "B"}
NoTimer == -1

VARIABLES
    now,            \* Date.now(), as read by CollaborativeCursors
    doc,            \* records of client A's store, by id
    loading,        \* useState(true)
    syncStatus,     \* useState("synced")
    pendingChanges, \* pendingChanges.current
    timeoutRef,     \* timeoutRef.current: ms left on the armed timer
    flushes,        \* one entry per run of the timeout callback
    serverDoc,      \* the whiteboard collection in the document store
    docB,           \* records of client B's store
    user,           \* useAuth().user of the viewer (uid or "null")
    otherUsers,     \* useState([]) of CollaborativeCursors
    nEdits,         \* history: local notifications absorbed so far
    nRemote,        \* history: remote batches applied to client A so far
    nOther,         \* history: writes of other clients so far
    sinceAbsorb,    \* history: ms since the last absorption, up to DebounceMs
    scenario,       \* history: the times of the absorptions and flushes of a run
                    \*          that follows ScenarioTimes, and the time since mount
    baseDoc,        \* history: doc as it was when the buffer was last reset
    remoteTouched,  \* history: ids put by a remote batch since then
    window,         \* history: the notifications absorbed since the last reset
    lastPresence,   \* history: the last presence batch processed, and when
    mounted,        \* BrainstormBoard is mounted: its effects are set up
    readOnly,       \* the readOnly prop
    lastBroadcastRef, \* lastBroadcastRef.current (epoch ms)
    publishes,      \* the updatePresence calls made so far
    dropped,        \* history: the notifications held by the buffer at a cleanup
    nToggles,       \* history: changes of the readOnly prop so far
    hasError,       \* ErrorBoundary state.hasError
    fallback        \* ErrorBoundary props.fallback: "none" or "custom"

boardVars == <<doc, loading, syncStatus, pendingChanges, timeoutRef, flushes,
               serverDoc, docB, nEdits, nRemote, nOther, sinceAbsorb, scenario, baseDoc,
               remoteTouched, window>>
cursorVars == <<user, otherUsers, lastPresence>>
lifeVars == <<mounted, readOnly, dropped, nToggles>>
presenceVars == <<lastBroadcastRef, publishes>>
boundaryVars == <<hasError, fallback>>
vars == <<now, boardVars, cursorVars, lifeVars, presenceVars, boundaryVars>>

\* ------------------------------------------------------------------- store
\* A Record<string, T> is a function whose domain is the set of its keys.
NoRecords == [id \in {} |-> "A"]

\* { added: {}, updated: {}, removed: {} }
EmptyChangeSet == [added |-> NoRecords, updated |-> NoRecords, removed |-> NoRecords]

\* m[k] = v for every key k of n, the other keys of m kept
Assign(m, n) ==
    [id \in (DOMAIN m) \cup (DOMAIN n) |-> IF id \in DOMAIN n THEN n[id] ELSE m[id]]

\* delete m[k] for every k in keys
Delete(m, keys) == [id \in (DOMAIN m) \ keys |-> m[id]]

\* a put that replaces the store's records by those of the batch
StoreReplace(d, records) == records

\* store.put(records): every record of the batch is written, the rest is kept
StorePut(d, records) == Assign(d, records)

\* the {added, updated, removed} diff the store reports for a put
PutChanges(d, records) ==
    [added   |-> [id \in (DOMAIN records) \ (DOMAIN d) |-> records[id]],
     updated |-> [id \in {x \in (DOMAIN records) \cap (DOMAIN d) : d[x] # records[x]}
                     |-> <<d[id], records[id]>>],
     removed |-> NoRecords]

\* ---------------------------------------------------- store.listen handler
\* A buffered record together with the number of the notification that put it
\* into the buffer (history: the number is not read by the program).
Tag(rec, e) == [rec |-> rec, e |-> e]

\* the notifications whose records a change set holds
TagsOf(cs) ==
    {cs.added[id].e : id \in DOMAIN cs.added}
        \cup {cs.updated[id].e : id \in DOMAIN cs.updated}
        \cup {cs.removed[id].e : id \in DOMAIN cs.removed}

\* a listener without the loop guard and without the source filter
DeliveredFromAnySource(source) == TRUE

\* store.listen(..., { source: "user" }) and `if (source === 'remote') return`
Delivered(source) == source = "user" /\ source # "remote"

\* Handle Added without `delete pending.removed[rec.id]`
HandleAddedKeepRemoved(pending, changes, e) ==
    [pending EXCEPT
        !.added   = Assign(@, [id \in DOMAIN changes.added |-> Tag(changes.added[id], e)])]

\* Object.values(changes.added).forEach(...)
HandleAdded(pending, changes, e) ==
    [pending EXCEPT
        !.added   = Assign(@, [id \in DOMAIN changes.added |-> Tag(changes.added[id], e)]),
        !.removed = Delete(@, DOMAIN changes.added)]

\* Object.values(changes.updated).forEach(...): change is [prev, next]
HandleUpdated(pending, changes, e) ==
    LET inAdded == (DOMAIN changes.updated) \cap (DOMAIN pending.added)
        others  == (DOMAIN changes.updated) \ inAdded
    IN [pending EXCEPT
        !.added   = Assign(@, [id \in inAdded |-> Tag(changes.updated[id][2], e)]),
        !.updated = Assign(@, [id \in others |-> Tag(changes.updated[id][2], e)]),
        !.removed = Delete(@, others)]

\* Handle Removed without the `if (pending.added[rec.id])` branch
HandleRemovedNoCancel(pending, changes, e) ==
    [pending EXCEPT
        !.updated = Delete(@, DOMAIN changes.removed),
        !.removed = Assign(@, [id \in DOMAIN changes.removed |-> Tag(changes.removed[id], e)])]

\* Handle Removed without `delete pending.updated[rec.id]`
HandleRemovedKeepUpdated(pending, changes, e) ==
    LET inAdded == (DOMAIN changes.removed) \cap (DOMAIN pending.added)
        others  == (DOMAIN changes.removed) \ inAdded
    IN [pending EXCEPT
        !.added   = Delete(@, inAdded),
        !.removed = Assign(@, [id \in others |-> Tag(changes.removed[id], e)])]

\* Object.values(changes.removed).forEach(...)
HandleRemoved(pending, changes, e) ==
    LET inAdded == (DOMAIN changes.removed) \cap (DOMAIN pending.added)
        others  == (DOMAIN changes.removed) \ inAdded
    IN [pending EXCEPT
        !.added   = Delete(@, inAdded),
        !.updated = Delete(@, others),
        !.removed = Assign(@, [id \in others |-> Tag(changes.removed[id], e)])]

\* 1. Merge changes into pending buffer
Absorb(pending, changes, e) ==
    HandleRemoved(HandleUpdated(HandleAdded(pending, changes, e), changes, e), changes, e)

\* a throttle: an armed timer is left running
KeepArmedTimer(ref) == IF ref # NoTimer THEN ref ELSE DebounceMs

\* clearTimeout(timeoutRef.current); timeoutRef.current = setTimeout(..., 500)
ArmTimer(ref) == DebounceMs

\* history: a run whose local edits come at t = 0, 200 and 600 after mount,
\* observed up to MaxTime; any other run is OffScenario
ScenarioTimes == <<0, 200, 600>>
OffScenario == [t |-> 0, edits |-> <<-1>>, flushes |-> <<>>]
ScenarioEdit(sc) ==
    IF /\ sc # OffScenario
       /\ Len(sc.edits) < Len(ScenarioTimes)
       /\ ScenarioTimes[Len(sc.edits) + 1] = sc.t
    THEN [sc EXCEPT !.edits = Append(@, sc.t)]
    ELSE OffScenario
ScenarioFlush(sc) ==
    IF sc # OffScenario THEN [sc EXCEPT !.flushes = Append(@, sc.t)] ELSE sc
ScenarioTick(sc) ==
    IF sc = OffScenario THEN sc
    ELSE IF Len(sc.edits) < Len(ScenarioTimes)
            /\ sc.t + TickMs > ScenarioTimes[Len(sc.edits) + 1]
    THEN OffScenario
    ELSE [sc EXCEPT !.t = IF @ + TickMs < MaxTime THEN @ + TickMs ELSE MaxTime]

\* The listener, run by the store on a change of the given source.
StoreListen(source, changes, e) ==
    IF Delivered(source)
    THEN /\ syncStatus' = "syncing"
         /\ pendingChanges' = Absorb(pendingChanges, changes, e)
         /\ timeoutRef' = ArmTimer(timeoutRef)
         /\ sinceAbsorb' = 0
         /\ scenario' = ScenarioEdit(scenario)
         /\ window' = Append(window, [e |-> e, changes |-> changes])
    ELSE UNCHANGED <<syncStatus, pendingChanges, timeoutRef, sinceAbsorb, scenario, window>>

\* ---------------------------------------------------------- timeout callback
\* payload = { added: {...pending.added}, updated: {...}, removed: {...} }
Snapshot(pending) ==
    [added |-> pending.added, updated |-> pending.updated, removed |-> pending.removed]

\* the buffer is not reset when the snapshot is taken
BufferKept(pending) == pending

\* pendingChanges.current = { added: {}, updated: {}, removed: {} }
BufferAfterSnapshot(pending) == EmptyChangeSet

\* no empty-snapshot guard
HasChangesAlways(payload) == TRUE

\* hasChanges
HasChanges(payload) ==
    \/ Cardinality(DOMAIN payload.added) > 0
    \/ Cardinality(DOMAIN payload.updated) > 0
    \/ Cardinality(DOMAIN payload.removed) > 0

\* a catch block that reports success
StatusOnRejectSwallowed == "synced"

\* catch (error) { setSyncStatus("error") }
StatusOnReject == "error"

\* ------------------------------------------------------------ document store
Recs(m) == [id \in DOMAIN m |-> m[id].rec]

\* updateWhiteboardShapes applied by the store: added and updated records are
\* written, removed records are deleted
ApplyDelta(d, payload) ==
    Delete(Assign(Assign(d, Recs(payload.added)), Recs(payload.updated)),
           DOMAIN payload.removed)

\* the batches a subscription can deliver from the collection
Batches(d) == {[id \in S |-> d[id]] : S \in SUBSET (DOMAIN d)}

\* ----------------------------------------------------------- local editing
\* the notifications the store of client A can emit for one user edit:
\* records that do not exist are added, records that exist are updated to
\* another payload or removed
LocalChanges(d) ==
    {[added   |-> [id \in S \ (DOMAIN d) |-> p],
      updated |-> [id \in (S \cap (DOMAIN d)) \ R |-> <<d[id], q>>],
      removed |-> [id \in R |-> d[id]]] :
        <<S, R, p, q>> \in {x \in (SUBSET Ids) \X (SUBSET Ids) \X Payloads \X Payloads :
            /\ x[1] # {}
            /\ Cardinality(x[1]) <= MaxRecordsPerEdit
            /\ x[2] \subseteq x[1] \cap (DOMAIN d)
            /\ \A id \in (x[1] \cap (DOMAIN d)) \ x[2] : d[id] # x[4]}}

\* the notifications of user edits that touch records of ids only
EditsOf(d, ids) ==
    {c \in LocalChanges(d) :
        (DOMAIN c.added) \cup (DOMAIN c.updated) \cup (DOMAIN c.removed) \subseteq ids}

\* the store after the edit
ApplyChanges(d, changes) ==
    Delete(Assign(Assign(d, changes.added),
                  [id \in DOMAIN changes.updated |-> changes.updated[id][2]]),
           DOMAIN changes.removed)

\* --------------------------------------------------------------- the board
Init ==
    /\ now = 0
    /\ doc = NoRecords
    /\ loading = TRUE
    /\ syncStatus = "synced"
    /\ pendingChanges = EmptyChangeSet
    /\ timeoutRef = NoTimer
    /\ flushes = <<>>
    /\ serverDoc = NoRecords
    /\ docB = NoRecords
    /\ user = "null"
    /\ otherUsers = <<>>
    /\ nEdits = 0
    /\ nRemote = 0
    /\ nOther = 0
    /\ sinceAbsorb = DebounceMs
    /\ scenario = [t |-> 0, edits |-> <<>>, flushes |-> <<>>]
    /\ baseDoc = NoRecords
    /\ remoteTouched = {}
    /\ window = <<>>
    /\ lastPresence = [users |-> <<>>, at |-> 0, seen |-> FALSE]
    /\ mounted = TRUE
    /\ readOnly = FALSE
    /\ lastBroadcastRef = 0
    /\ publishes = <<>>
    /\ dropped = {}
    /\ nToggles = 0
    /\ hasError = FALSE
    /\ fallback = "none"

\* TickMs pass on the board; an armed timer that is due fires first
Tick ==
    /\ timeoutRef = NoTimer \/ timeoutRef >= TickMs
    /\ timeoutRef' = IF timeoutRef = NoTimer THEN NoTimer ELSE timeoutRef - TickMs
    /\ sinceAbsorb' = IF sinceAbsorb + TickMs < DebounceMs
                      THEN sinceAbsorb + TickMs ELSE DebounceMs
    /\ scenario' = ScenarioTick(scenario)
    /\ UNCHANGED <<boundaryVars, now, doc, loading, syncStatus, pendingChanges, flushes, serverDoc,
                   docB, nEdits, nRemote, nOther, baseDoc, remoteTouched, window,
                   cursorVars, lifeVars, presenceVars>>

\* a board that ignores readOnly
ListeningAlways == mounted

\* useEffect(() => { if (readOnly) return; store.listen(...) }): the listener
\* is installed while the board is mounted and not read-only
Listening == mounted /\ ~readOnly

\* the user edits the board through the editing surface, which is rendered
\* while the boundary around it is not in the error state: the store changes
\* and notifies the listener, if one is installed
LocalEdit(changes) ==
    /\ mounted
    /\ ~hasError
    /\ nEdits < MaxEdits
    /\ doc' = ApplyChanges(doc, changes)
    /\ nEdits' = nEdits + 1
    /\ IF Listening
       THEN StoreListen("user", changes, nEdits + 1)
       ELSE UNCHANGED <<syncStatus, pendingChanges, timeoutRef, sinceAbsorb, scenario, window>>
    /\ UNCHANGED <<boundaryVars, now, loading, flushes, serverDoc, docB, nRemote, nOther, baseDoc,
                   remoteTouched, cursorVars, lifeVars, presenceVars>>

\* loading is cleared only by a batch that has records
LoadingUntilRecords(records) == Cardinality(DOMAIN records) = 0 /\ loading

\* setLoading(false), whatever the batch
LoadingAfterBatch(records) == FALSE

\* subscribeToWhiteboard callback of client A
SubscribeCallback(records) ==
    /\ mounted
    /\ nRemote < MaxRemote
    /\ nRemote' = nRemote + 1
    /\ IF Cardinality(DOMAIN records) > 0
       THEN /\ doc' = StorePut(doc, records)
            /\ StoreListen("remote", PutChanges(doc, records), 0)
       ELSE UNCHANGED <<doc, syncStatus, pendingChanges, timeoutRef, sinceAbsorb, scenario,
                        window>>
    /\ loading' = LoadingAfterBatch(records)
    /\ IF timeoutRef = NoTimer
       THEN baseDoc' = doc' /\ UNCHANGED remoteTouched
       ELSE remoteTouched' = remoteTouched \cup DOMAIN records /\ UNCHANGED baseDoc
    /\ UNCHANGED <<boundaryVars, now, flushes, serverDoc, docB, nEdits, nOther, cursorVars, lifeVars, presenceVars>>

\* the setTimeout callback, up to the await
TimerFire ==
    /\ timeoutRef # NoTimer
    /\ timeoutRef <= 0
    /\ LET payload == Snapshot(pendingChanges)
       IN /\ pendingChanges' = BufferAfterSnapshot(pendingChanges)
          /\ timeoutRef' = NoTimer
          /\ IF HasChanges(payload)
             THEN /\ flushes' = Append(flushes,
                        [payload |-> payload, status |-> "inflight",
                         edits |-> window, quiet |-> sinceAbsorb])
                  /\ UNCHANGED syncStatus
             ELSE /\ flushes' = Append(flushes,
                        [payload |-> payload, status |-> "skipped",
                         edits |-> window, quiet |-> sinceAbsorb])
                  /\ syncStatus' = "synced"
    /\ baseDoc' = doc
    /\ remoteTouched' = {}
    /\ window' = <<>>
    /\ scenario' = ScenarioFlush(scenario)
    /\ UNCHANGED <<boundaryVars, now, doc, loading, serverDoc, docB, nEdits, nRemote, nOther,
                   sinceAbsorb, cursorVars, lifeVars, presenceVars>>

\* updateWhiteboardShapes resolves: the rest of the try block
SendResolve(i) ==
    /\ flushes[i].status = "inflight"
    /\ flushes' = [flushes EXCEPT ![i].status = "ok"]
    /\ serverDoc' = ApplyDelta(serverDoc, flushes[i].payload)
    /\ syncStatus' = IF mounted THEN "synced" ELSE syncStatus
    /\ UNCHANGED <<boundaryVars, now, doc, loading, pendingChanges, timeoutRef, docB, nEdits, nRemote,
                   nOther, sinceAbsorb, scenario, baseDoc, remoteTouched, window, cursorVars, lifeVars, presenceVars>>

\* updateWhiteboardShapes rejects: the catch block
SendReject(i) ==
    /\ flushes[i].status = "inflight"
    /\ flushes' = [flushes EXCEPT ![i].status = "failed"]
    /\ syncStatus' = IF mounted THEN StatusOnReject ELSE syncStatus
    /\ UNCHANGED <<boundaryVars, now, doc, loading, pendingChanges, timeoutRef, serverDoc, docB, nEdits,
                   nRemote, nOther, sinceAbsorb, scenario, baseDoc, remoteTouched, window, cursorVars, lifeVars, presenceVars>>

\* subscribeToWhiteboard callback of client B, which only watches
SubscribeCallbackB(records) ==
    /\ Cardinality(DOMAIN records) > 0
    /\ docB' = StorePut(docB, records)
    /\ UNCHANGED <<boundaryVars, now, doc, loading, syncStatus, pendingChanges, timeoutRef, flushes,
                   serverDoc, nEdits, nRemote, nOther, sinceAbsorb, scenario, baseDoc,
                   remoteTouched,
                   window, cursorVars, lifeVars, presenceVars>>

\* another client writes a record it minted or one it has received
OtherClientWrite(id, p) ==
    /\ nOther < MaxOther
    /\ nOther' = nOther + 1
    /\ serverDoc' = Assign(serverDoc, [x \in {id} |-> p])
    /\ UNCHANGED <<boundaryVars, now, doc, loading, syncStatus, pendingChanges, timeoutRef, flushes,
                   docB, nEdits, nRemote, sinceAbsorb, scenario, baseDoc, remoteTouched,
                   window, cursorVars, lifeVars, presenceVars>>

\* {!readOnly && <CollaborativeCursors/>} inside <ErrorBoundary>: the cursors
\* are mounted while the board listens and the boundary renders its children
CursorsMounted == Listening /\ ~hasError

\* ------------------------------------------------------ CollaborativeCursors
Users == {"u1", "u2"}
ViewerUid == "u1"
Ages == {0, 59000, 59900, 60000, 61000}

\* lastActive as the presence channel can deliver it: a Firestore Timestamp
\* (toMillis), a Date (getTime), an epoch-millis number, or nothing
LastActiveValues(t) ==
    {[form |-> f, ms |-> t - a] : f \in {"timestamp", "date", "number"}, a \in Ages}
        \cup {[form |-> "missing", ms |-> 0]}

PresenceRecords(t) == [userId : Users, lastActive : LastActiveValues(t)]

PresenceBatches(t) ==
    UNION {[1..n -> PresenceRecords(t)] : n \in 0..MaxUsers}

\* u.lastActive?.toMillis ? u.lastActive.toMillis() :
\*     u.lastActive?.getTime ? u.lastActive.getTime() : Date.now()
LastActiveMillis(u, t) ==
    IF u.lastActive.form = "timestamp" THEN u.lastActive.ms
    ELSE IF u.lastActive.form = "date" THEN u.lastActive.ms
    ELSE t

\* a filter without the self check
IsSelfNever(u, uid) == FALSE

\* if (u.userId === user.uid) return false
IsSelf(u, uid) == u.userId = uid

\* return Date.now() - lastActive < 60000
IsRecent(u, t) == t - LastActiveMillis(u, t) < StaleMs

\* users.filter(u => ...)
ActiveUsers(users, uid, t) ==
    LET Keep(u) == ~IsSelf(u, uid) /\ IsRecent(u, t)
    IN SelectSeq(users, Keep)

\* useAuth() delivers the signed-in user
AuthLoaded ==
    /\ user = "null"
    /\ user' = ViewerUid
    /\ UNCHANGED <<boundaryVars, now, boardVars, otherUsers, lastPresence, lifeVars, presenceVars>>

\* Date.now() advances
ClockTick ==
    /\ now < MaxNow
    /\ now' = now + TickMs
    /\ UNCHANGED <<boundaryVars, boardVars, cursorVars, lifeVars, presenceVars>>

\* subscribeToPresence callback
PresenceCallback(users) ==
    /\ CursorsMounted
    /\ IF user = "null"
       THEN UNCHANGED <<otherUsers, lastPresence>>
       ELSE /\ otherUsers' = ActiveUsers(users, user, now)
            /\ lastPresence' = [users |-> users, at |-> now, seen |-> TRUE]
    /\ UNCHANGED <<boundaryVars, now, boardVars, user, lifeVars, presenceVars>>

\* ------------------------------------------------------- presence broadcast
\* A coordinate of editor.inputs.currentPagePoint, in tenths when it is a
\* finite number.
Num(v) == [kind |-> "num", v |-> v]
NaN == [kind |-> "nan", v |-> 0]
PlusInfinity == [kind |-> "+inf", v |-> 0]
MinusInfinity == [kind |-> "-inf", v |-> 0]

\* the points the interval callback can sample: (1.5, -1.5), (0.4, 2.5), a
\* point with one NaN coordinate, a point with one infinite coordinate
SampledPoints ==
    {<<Num(15), Num(-15)>>, <<Num(4), Num(25)>>, <<NaN, Num(4)>>, <<Num(4), NaN>>,
     <<PlusInfinity, Num(4)>>, <<Num(4), MinusInfinity>>}

\* Date.now()
DateNow == MountEpoch + now

\* Number.isNaN(c)
NumberIsNaN(c) == c.kind = "nan"

\* Math.round(c): the nearest integer, halves towards +Infinity; NaN and the
\* infinities are returned as they are
MathRound(c) ==
    IF c.kind = "num" THEN Num(((c.v + 5) \div 10) * 10) ELSE c

\* an interval callback that publishes on every tick
NeverThrottled(t, last) == FALSE

\* if (now - lastBroadcastRef.current < 100) return
Throttled(t, last) == t - last < ThrottleMs

\* the setInterval callback of CollaborativeCursors, sampling the point (x, y)
BroadcastTick(x, y) ==
    /\ CursorsMounted
    /\ user # "null"
    /\ Len(publishes) < MaxPublishes
    /\ IF Throttled(DateNow, lastBroadcastRef)
       THEN UNCHANGED <<lastBroadcastRef, publishes>>
       ELSE IF ~NumberIsNaN(x) /\ ~NumberIsNaN(y)
            THEN /\ publishes' = Append(publishes,
                        [x |-> MathRound(x), y |-> MathRound(y), at |-> DateNow,
                         sampled |-> <<x, y>>, status |-> "inflight"])
                 /\ lastBroadcastRef' = DateNow
            ELSE UNCHANGED <<lastBroadcastRef, publishes>>
    /\ UNCHANGED <<boundaryVars, now, boardVars, cursorVars, lifeVars>>

\* updatePresence resolves
PublishResolve(i) ==
    /\ publishes[i].status = "inflight"
    /\ publishes' = [publishes EXCEPT ![i].status = "ok"]
    /\ UNCHANGED <<boundaryVars, now, boardVars, cursorVars, lifeVars, lastBroadcastRef>>

\* updatePresence rejects: the promise is neither awaited nor caught, no
\* state of the board or of the cursors is set
PublishReject(i) ==
    /\ publishes[i].status = "inflight"
    /\ publishes' = [publishes EXCEPT ![i].status = "failed"]
    /\ UNCHANGED <<boundaryVars, now, boardVars, cursorVars, lifeVars, lastBroadcastRef>>

\* Date.now() advances between two runs of the interval callback
ClockSteps == {50, 100}
ClockAdvance(d) ==
    /\ now + d <= MaxNow
    /\ now' = now + d
    /\ UNCHANGED <<boundaryVars, boardVars, cursorVars, lifeVars, presenceVars>>

\* ---------------------------------------------------------------- lifecycle
\* a presence batch with one fresh record of another user
FreshBatches(t) ==
    {<<[userId |-> "u2", lastActive |-> [form |-> "timestamp", ms |-> t]]>>}

\* points on the canvas
OnCanvasPoints == {<<Num(15), Num(-15)>>, <<Num(4), Num(25)>>}

\* a cleanup without clearTimeout
TimerLeftArmed(ref) == ref

\* if (timeoutRef.current) clearTimeout(timeoutRef.current)
TimerAfterCleanup(ref) == NoTimer

\* cleanup of the listener effect: cleanup(); clearTimeout(timeoutRef.current).
\* pendingChanges.current is left as it is.
ListenCleanup ==
    /\ timeoutRef' = TimerAfterCleanup(timeoutRef)
    /\ dropped' = dropped \cup TagsOf(pendingChanges)

\* the readOnly prop changes: the listener effect is cleaned up, if it had
\* installed a listener, and run again; CollaborativeCursors is unmounted
\* when the board becomes read-only and mounted anew when it stops being so
SetReadOnly(b) ==
    /\ mounted
    /\ readOnly # b
    /\ nToggles < MaxToggles
    /\ nToggles' = nToggles + 1
    /\ readOnly' = b
    /\ IF Listening THEN ListenCleanup ELSE UNCHANGED <<timeoutRef, dropped>>
    /\ otherUsers' = <<>>
    /\ lastBroadcastRef' = 0
    /\ UNCHANGED <<boundaryVars, now, doc, loading, syncStatus, pendingChanges, flushes, serverDoc, docB,
                   nEdits, nRemote, nOther, sinceAbsorb, scenario, baseDoc, remoteTouched,
                   window, user, lastPresence, mounted, publishes>>

\* the board is unmounted: the cleanups of all its effects run
Unmount ==
    /\ mounted
    /\ mounted' = FALSE
    /\ IF Listening THEN ListenCleanup ELSE UNCHANGED <<timeoutRef, dropped>>
    /\ UNCHANGED <<boundaryVars, now, doc, loading, syncStatus, pendingChanges, flushes, serverDoc, docB,
                   nEdits, nRemote, nOther, sinceAbsorb, scenario, baseDoc, remoteTouched,
                   window, cursorVars, readOnly, nToggles, presenceVars>>

\* ------------------------------------------------------------ ErrorBoundary
\* render(): the children, props.fallback or the built-in fallback
BoundaryView ==
    IF hasError
    THEN IF fallback # "none" THEN "fallback" ELSE "builtin"
    ELSE "children"

\* the "Try Again" button is part of the built-in fallback only
TryAgainShown == BoundaryView = "builtin"

\* the status indicator is rendered by BrainstormBoard outside the boundary
IndicatorRendered == mounted

\* a child throws while rendering: getDerivedStateFromError; the children,
\* CollaborativeCursors among them, are unmounted
ChildThrows ==
    /\ mounted
    /\ ~hasError
    /\ hasError' = TRUE
    /\ otherUsers' = <<>>
    /\ lastBroadcastRef' = 0
    /\ UNCHANGED <<now, boardVars, user, lastPresence, lifeVars, publishes, fallback>>

\* onClick of "Try Again": setState({ hasError: false })
TryAgain ==
    /\ mounted
    /\ TryAgainShown
    /\ hasError' = FALSE
    /\ UNCHANGED <<now, boardVars, cursorVars, lifeVars, presenceVars, fallback>>

\* the parent renders the boundary with or without a fallback prop
SetFallback(f) ==
    /\ mounted
    /\ fallback # f
    /\ fallback' = f
    /\ UNCHANGED <<now, boardVars, cursorVars, lifeVars, presenceVars, hasError>>

\* ------------------------------------------------------------ specifications
Next ==
    \/ Tick
    \/ \E changes \in LocalChanges(doc) : LocalEdit(changes)
    \/ \E records \in Batches(serverDoc) : SubscribeCallback(records)
    \/ TimerFire
    \/ \E i \in DOMAIN flushes : SendResolve(i)
    \/ \E i \in DOMAIN flushes : SendReject(i)
    \/ \E id \in ForeignIds \cup DOMAIN serverDoc, p \in Payloads : OtherClientWrite(id, p)

Spec == Init /\ [][Next]_vars

NextTwoClients ==
    \/ Tick
    \/ \E changes \in LocalChanges(doc) : LocalEdit(changes)
    \/ \E records \in Batches(serverDoc) : SubscribeCallback(records)
    \/ TimerFire
    \/ \E i \in DOMAIN flushes : SendResolve(i)
    \/ \E i \in DOMAIN flushes : SendReject(i)
    \/ \E records \in Batches(serverDoc) : SubscribeCallbackB(records)

SpecTwoClients == Init /\ [][NextTwoClients]_vars

NextCursors ==
    \/ AuthLoaded
    \/ ClockTick
    \/ \E users \in PresenceBatches(now) : PresenceCallback(users)

SpecCursors == Init /\ [][NextCursors]_vars

NextPresence ==
    \/ AuthLoaded
    \/ \E d \in ClockSteps : ClockAdvance(d)
    \/ \E pt \in SampledPoints : BroadcastTick(pt[1], pt[2])
    \/ \E i \in DOMAIN publishes : PublishResolve(i)
    \/ \E i \in DOMAIN publishes : PublishReject(i)

SpecPresence == Init /\ [][NextPresence]_vars

NextLifecycle ==
    \/ Tick
    \/ \E changes \in LocalChanges(doc) : LocalEdit(changes)
    \/ \E records \in Batches(serverDoc) : SubscribeCallback(records)
    \/ TimerFire
    \/ \E i \in DOMAIN flushes : SendResolve(i)
    \/ \E i \in DOMAIN flushes : SendReject(i)
    \/ \E b \in BOOLEAN : SetReadOnly(b)
    \/ Unmount

SpecLifecycle == Init /\ [][NextLifecycle]_vars

NextTeardown ==
    \/ Tick
    \/ \E changes \in LocalChanges(doc) : LocalEdit(changes)
    \/ \E records \in Batches(serverDoc) : SubscribeCallback(records)
    \/ TimerFire
    \/ \E i \in DOMAIN flushes : SendResolve(i)
    \/ \E i \in DOMAIN flushes : SendReject(i)
    \/ AuthLoaded
    \/ \E users \in FreshBatches(now) : PresenceCallback(users)
    \/ \E pt \in OnCanvasPoints : BroadcastTick(pt[1], pt[2])
    \/ Unmount

SpecTeardown == Init /\ [][NextTeardown]_vars

\* the user of the board that is switched to read-only and back edits r1
ReadOnlyEditIds == {"r1"}

NextReadOnly ==
    \/ Tick
    \/ \E changes \in EditsOf(doc, ReadOnlyEditIds) : LocalEdit(changes)
    \/ \E records \in Batches(serverDoc) : SubscribeCallback(records)
    \/ TimerFire
    \/ \E i \in DOMAIN flushes : SendResolve(i)
    \/ AuthLoaded
    \/ \E users \in FreshBatches(now) : PresenceCallback(users)
    \/ \E pt \in OnCanvasPoints : BroadcastTick(pt[1], pt[2])
    \/ \E b \in BOOLEAN : SetReadOnly(b)

SpecReadOnly == Init /\ [][NextReadOnly]_vars

NextBoundary ==
    \/ Tick
    \/ \E changes \in LocalChanges(doc) : LocalEdit(changes)
    \/ TimerFire
    \/ \E i \in DOMAIN flushes : SendResolve(i)
    \/ \E i \in DOMAIN flushes : SendReject(i)
    \/ ChildThrows
    \/ TryAgain
    \/ \E f \in {"none", "custom"} : SetFallback(f)

SpecBoundary == Init /\ [][NextBoundary]_vars

\* ------------------------------------------------------------------ claims
\* what a notification does to a record
OpOn(changes, id) ==
    IF id \in DOMAIN changes.added THEN "add"
    ELSE IF id \in DOMAIN changes.updated THEN "update"
    ELSE IF id \in DOMAIN changes.removed THEN "remove"
    ELSE "none"

\* the record a notification leaves for id
RecOn(changes, id) ==
    IF id \in DOMAIN changes.added THEN changes.added[id]
    ELSE IF id \in DOMAIN changes.updated THEN changes.updated[id][2]
    ELSE changes.removed[id]

\* the notifications of a window that touch id, in order
Touching(w, id) ==
    LET Touches(x) == OpOn(x.changes, id) # "none"
    IN SelectSeq(w, Touches)

OpsOn(w, id) == [i \in DOMAIN Touching(w, id) |-> OpOn(Touching(w, id)[i].changes, id)]

\* The fold rules of the design (Delta Buffer), one record at a time: what a
\* window of notifications should leave pending for id.
NoEntry == [kind |-> "none", rec |-> "none"]

FoldStep(st, op, rec) ==
    IF op = "add" THEN [kind |-> "add", rec |-> rec]
    ELSE IF op = "update"
         THEN [kind |-> IF st.kind = "add" THEN "add" ELSE "update", rec |-> rec]
    ELSE IF st.kind = "add" THEN NoEntry
    ELSE [kind |-> "remove", rec |-> rec]

RECURSIVE FoldOf(_, _)
FoldOf(w, id) ==
    IF w = <<>> THEN NoEntry
    ELSE LET init == FoldOf(SubSeq(w, 1, Len(w) - 1), id)
             ch   == w[Len(w)].changes
         IN IF OpOn(ch, id) = "none" THEN init
            ELSE FoldStep(init, OpOn(ch, id), RecOn(ch, id))

\* what a change set holds for id
EntryOf(cs, id) ==
    IF id \in DOMAIN cs.added THEN [kind |-> "add", rec |-> cs.added[id].rec]
    ELSE IF id \in DOMAIN cs.updated THEN [kind |-> "update", rec |-> cs.updated[id].rec]
    ELSE IF id \in DOMAIN cs.removed THEN [kind |-> "remove", rec |-> cs.removed[id].rec]
    ELSE NoEntry

Folded(cs, w) == \A id \in Ids : EntryOf(cs, id) = FoldOf(w, id)

EditNos(w) == {w[i].e : i \in DOMAIN w}

\* every notification absorbed so far, in order
RECURSIVE FlushedEdits(_)
FlushedEdits(n) == IF n = 0 THEN <<>> ELSE FlushedEdits(n - 1) \o flushes[n].edits

AllEdits == FlushedEdits(Len(flushes)) \o window

InAnyMap(cs, id) ==
    id \in (DOMAIN cs.added) \cup (DOMAIN cs.updated) \cup (DOMAIN cs.removed)

Sent(i) == flushes[i].status # "skipped"

\* C1: applying a remote batch issues no outbound push and leaves the
\* PendingChangeSet and the debounce timer as they were; as long as no local
\* edit has been made, nothing has been buffered, armed or pushed.
C1_NoLoop ==
    [][/\ nRemote' # nRemote =>
            /\ flushes' = flushes
            /\ pendingChanges' = pendingChanges
            /\ timeoutRef' = timeoutRef
       /\ nEdits' = 0 =>
            /\ flushes' = <<>>
            /\ pendingChanges' = EmptyChangeSet
            /\ timeoutRef' = NoTimer]_vars

\* two remote batches have been applied, one of them into an open window
C1_Witness ==
    /\ nRemote = 2
    /\ remoteTouched # {}
    /\ timeoutRef # NoTimer
    /\ DOMAIN doc # {}

\* C2: for every record id that no remote batch has put since the buffer was
\* last reset, applying the PendingChangeSet (added and updated written,
\* removed deleted) to the document as of that reset gives the current
\* document.
C2_MinimalDelta ==
    LET replay == ApplyDelta(baseDoc, pendingChanges)
    IN \A id \in Ids \ remoteTouched :
        /\ id \in DOMAIN replay <=> id \in DOMAIN doc
        /\ id \in DOMAIN doc => replay[id] = doc[id]

\* C3: in one open window, once add(id) has been absorbed, a following
\* remove(id) leaves no entry for id in any map, and a following update(id, B)
\* leaves added[id] = B and no entry for id in updated or removed.
C3_FoldAddThen ==
    \A id \in Ids :
        LET ops  == OpsOn(window, id)
            n    == Len(ops)
            last == Touching(window, id)[n].changes
        IN (n >= 2 /\ ops[n - 1] = "add") =>
            /\ ops[n] = "remove" => ~InAnyMap(pendingChanges, id)
            /\ ops[n] = "update" =>
                /\ id \in DOMAIN pendingChanges.added
                /\ pendingChanges.added[id].rec = RecOn(last, id)
                /\ id \notin DOMAIN pendingChanges.updated
                /\ id \notin DOMAIN pendingChanges.removed

\* add(r1, A), update(r1, B) and remove(r1) were absorbed in one window
C3_Witness ==
    /\ OpsOn(window, "r1") = <<"add", "update", "remove">>
    /\ ~InAnyMap(pendingChanges, "r1")
    /\ timeoutRef # NoTimer

\* C7: in the PendingChangeSet and in every snapshot taken from it, a record
\* id is a key of at most one of added, updated and removed.
AtMostOneMap(cs) ==
    \A id \in Ids :
        /\ ~(id \in DOMAIN cs.added /\ id \in DOMAIN cs.updated)
        /\ ~(id \in DOMAIN cs.added /\ id \in DOMAIN cs.removed)
        /\ ~(id \in DOMAIN cs.updated /\ id \in DOMAIN cs.removed)

C4_Debounce ==
    /\ timeoutRef # NoTimer => timeoutRef = DebounceMs - sinceAbsorb
    /\ \A i \in DOMAIN flushes : flushes[i].quiet = DebounceMs
    /\ (scenario # OffScenario /\ scenario.edits # ScenarioTimes) => scenario.flushes = <<>>
    /\ scenario.edits = ScenarioTimes =>
        \/ /\ scenario.flushes = <<>>
           /\ scenario.t <= 1100
           /\ flushes = <<>>
        \/ /\ scenario.flushes = <<1100>>
           /\ Len(flushes) = 1
           /\ Len(flushes[1].edits) = 3
           /\ Folded(flushes[1].payload, flushes[1].edits)

\* the three edits were made at 0, 200 and 600, the flush came at 1100 and
\* more than 1100 have passed
C4_Witness ==
    /\ scenario.edits = ScenarioTimes
    /\ scenario.flushes = <<1100>>
    /\ scenario.t > 1100
    /\ Sent(1)

\* C5: the buffer is reset when the snapshot is taken, so every snapshot is
\* the fold of the edits absorbed up to its timer expiry and since the one
\* before, the buffer is the fold of the edits absorbed since, also while
\* sends are in flight, and no edit is in two snapshots or in a snapshot
\* and the buffer.
C5_SnapshotBeforeSend ==
    /\ Folded(pendingChanges, window)
    /\ TagsOf(pendingChanges) \subseteq EditNos(window)
    /\ \A i \in DOMAIN flushes :
        /\ Folded(flushes[i].payload, flushes[i].edits)
        /\ TagsOf(flushes[i].payload) \subseteq EditNos(flushes[i].edits)
        /\ TagsOf(flushes[i].payload) \cap TagsOf(pendingChanges) = {}
        /\ \A j \in DOMAIN flushes :
            i # j => TagsOf(flushes[i].payload) \cap TagsOf(flushes[j].payload) = {}

\* an edit absorbed while the first send was in flight is in the second
\* snapshot, pushed while the first send is still in flight
C5_Witness ==
    /\ Len(flushes) = 2
    /\ flushes[1].status = "inflight"
    /\ flushes[2].status = "inflight"
    /\ TagsOf(flushes[2].payload) # {}

\* C10: when a send is rejected the status becomes "error" and the buffer and
\* the timer stay as they are; a failed snapshot is never changed or sent
\* again, none of its edits is in another snapshot or in the buffer, and the
\* next timer expiry with a non-empty buffer pushes that buffer.
C10_FailedFlush ==
    [][/\ \A i \in DOMAIN flushes :
            (flushes[i].status = "inflight" /\ flushes'[i].status = "failed") =>
                /\ syncStatus' = "error"
                /\ pendingChanges' = pendingChanges
                /\ timeoutRef' = timeoutRef
       /\ \A i \in DOMAIN flushes :
            flushes[i].status = "failed" => flushes'[i] = flushes[i]
       /\ \A i \in DOMAIN flushes' :
            flushes'[i].status = "failed" =>
                /\ TagsOf(flushes'[i].payload) \cap TagsOf(pendingChanges') = {}
                /\ \A j \in DOMAIN flushes' :
                    i # j => TagsOf(flushes'[i].payload) \cap TagsOf(flushes'[j].payload) = {}
       /\ (Len(flushes') > Len(flushes) /\ HasChanges(pendingChanges)) =>
            /\ flushes'[Len(flushes')].status = "inflight"
            /\ flushes'[Len(flushes')].payload = pendingChanges]_vars

\* the first send failed and an edit absorbed after its snapshot was pushed
\* by the second
C10_Witness ==
    /\ Len(flushes) = 2
    /\ flushes[1].status = "failed"
    /\ flushes[2].status = "ok"
    /\ TagsOf(flushes[2].payload) # {}

\* C6: when all client A ever does to a record is to add it and to remove
\* it within one window, no snapshot holds the record, the store and client
\* B never have it, and a flush of a window made of these two edits alone
\* finds its three maps empty and makes no call.
C6_CancelOut ==
    \A id \in Ids :
        (/\ OpsOn(AllEdits, id) = <<"add", "remove">>
         /\ \/ OpsOn(window, id) = <<"add", "remove">>
            \/ \E i \in DOMAIN flushes : OpsOn(flushes[i].edits, id) = <<"add", "remove">>)
        => /\ ~InAnyMap(pendingChanges, id)
           /\ id \notin DOMAIN serverDoc
           /\ id \notin DOMAIN docB
           /\ \A i \in DOMAIN flushes :
                /\ ~InAnyMap(flushes[i].payload, id)
                /\ (/\ Len(flushes[i].edits) = 2
                    /\ Len(Touching(flushes[i].edits, id)) = 2
                    /\ \A x \in Ids \ {id} : Touching(flushes[i].edits, x) = <<>>) =>
                      /\ ~HasChanges(flushes[i].payload)
                      /\ ~Sent(i)

\* client A added and removed r1 within one window, the flush of that window
\* made no call, and client B, which has received r2 from A, has no r1
C6_Witness ==
    /\ OpsOn(AllEdits, "r1") = <<"add", "remove">>
    /\ \E i \in DOMAIN flushes :
        /\ OpsOn(flushes[i].edits, "r1") = <<"add", "remove">>
        /\ Len(flushes[i].edits) = 2
        /\ ~Sent(i)
    /\ "r2" \in DOMAIN docB
    /\ "r1" \notin DOMAIN docB

\* u is one of the records of otherUsers
Displayed(u) == \E j \in DOMAIN otherUsers : otherUsers[j] = u

\* C8: after a presence update has been processed, a record of another user
\* whose lastActive is a Timestamp or a Date is left out of otherUsers exactly
\* when its age at that moment, now - lastActive, is greater than 60000.
C8_Staleness ==
    lastPresence.seen =>
        \A i \in DOMAIN lastPresence.users :
            LET u == lastPresence.users[i]
            IN (u.userId # user /\ u.lastActive.form \in {"timestamp", "date"}) =>
                (~Displayed(u) <=> lastPresence.at - u.lastActive.ms > StaleMs)

\* C9: no record of otherUsers has the viewer's own user id.
C9_SelfExclusion ==
    \A j \in DOMAIN otherUsers : otherUsers[j].userId # user

\* a batch with a fresh record of the viewer and a record of another user was
\* processed, and the other user is displayed
C9_Witness ==
    /\ lastPresence.seen
    /\ \E i \in DOMAIN lastPresence.users :
        /\ lastPresence.users[i].userId = user
        /\ lastPresence.users[i].lastActive.form = "timestamp"
        /\ lastPresence.users[i].lastActive.ms = lastPresence.at
    /\ Len(otherUsers) = 1

\* C11: the unmount fires no timeout callback and clears the timer; once the
\* board is unmounted no timeout callback runs and no push is issued, no
\* presence publish is made, and no whiteboard or presence callback changes
\* the store, the loading flag or otherUsers.
C11_Teardown ==
    [][/\ (mounted /\ ~mounted') =>
            /\ flushes' = flushes
            /\ timeoutRef' = NoTimer
       /\ ~mounted =>
            /\ Len(flushes') = Len(flushes)
            /\ timeoutRef' = NoTimer
            /\ publishes' = publishes
            /\ doc' = doc
            /\ loading' = loading
            /\ otherUsers' = otherUsers
            /\ pendingChanges' = pendingChanges]_vars

\* the board was unmounted with edits buffered and a push in flight, after a
\* presence publish and with a cursor displayed; 500 ms later the push has
\* completed and nothing more was pushed
C11_Witness ==
    /\ ~mounted
    /\ dropped # {}
    /\ sinceAbsorb = DebounceMs
    /\ Len(flushes) = 1
    /\ flushes[1].status = "ok"
    /\ Len(publishes) = 1
    /\ Len(otherUsers) = 1

\* C12: no snapshot pushed holds a record put into the buffer by a
\* notification that was in the PendingChangeSet when the listener effect
\* was cleaned up.
C12_DroppedAtTeardown ==
    \A i \in DOMAIN flushes : TagsOf(flushes[i].payload) \cap dropped = {}

\* C13: in one open window, for a record that existed when the window
\* opened (the window holds no add of it before), update(id) followed by
\* remove(id) leaves id in removed and in no other map, and remove(id)
\* followed by add(id, P) leaves added[id] = P and id in no other map.
C13_FoldExisting ==
    \A id \in Ids :
        LET ops  == OpsOn(window, id)
            n    == Len(ops)
            last == Touching(window, id)[n].changes
        IN (n >= 2 /\ \A k \in 1..(n - 1) : ops[k] # "add") =>
            /\ (ops[n - 1] = "update" /\ ops[n] = "remove") =>
                /\ id \in DOMAIN pendingChanges.removed
                /\ id \notin DOMAIN pendingChanges.added
                /\ id \notin DOMAIN pendingChanges.updated
            /\ (ops[n - 1] = "remove" /\ ops[n] = "add") =>
                /\ id \in DOMAIN pendingChanges.added
                /\ pendingChanges.added[id].rec = RecOn(last, id)
                /\ id \notin DOMAIN pendingChanges.updated
                /\ id \notin DOMAIN pendingChanges.removed

\* a record received from the store was updated and then removed in one
\* window, and the buffer holds it in removed
C13_Witness ==
    /\ OpsOn(window, "r2") = <<"update", "remove">>
    /\ "r2" \in DOMAIN pendingChanges.removed
    /\ timeoutRef # NoTimer

\* C14: once a send has completed, as long as local edits absorbed since
\* the last snapshot are un-flushed, a timer is armed for them and the
\* status is not "synced".
C14_SendCompletion ==
    (/\ window # <<>>
     /\ \E i \in DOMAIN flushes : flushes[i].status \in {"ok", "failed"})
    => /\ timeoutRef # NoTimer
       /\ syncStatus # "synced"

\* C15: after a presence update has been processed, a record of another
\* user is displayed exactly when the age computed from its own lastActive
\* is below the threshold, where the record's own lastActive is taken when
\* it is a number, a Timestamp or a Date, and now only when it is missing.
C15_TimestampResolution ==
    lastPresence.seen =>
        \A i \in DOMAIN lastPresence.users :
            LET u   == lastPresence.users[i]
                own == IF u.lastActive.form = "missing"
                       THEN lastPresence.at ELSE u.lastActive.ms
            IN u.userId # user =>
                (Displayed(u) <=> lastPresence.at - own < StaleMs)

\* C16: at every instant otherUsers holds no record whose lastActive is a
\* Timestamp or a Date more than 60000 before now.
C16_ExpiryByStaleness ==
    \A j \in DOMAIN otherUsers :
        otherUsers[j].lastActive.form \in {"timestamp", "date"} =>
            now - otherUsers[j].lastActive.ms <= StaleMs

\* C17: any two consecutive publishes are at least 100 ms apart, and the
\* last-publish time is the time of the last publish made (0 before the
\* first), so a tick that publishes nothing leaves it as it was.
C17_Throttle ==
    /\ \A i \in DOMAIN publishes :
        i > 1 => publishes[i].at - publishes[i - 1].at >= ThrottleMs
    /\ lastBroadcastRef = IF publishes = <<>> THEN 0 ELSE publishes[Len(publishes)].at

\* two consecutive publishes are 150 ms apart: between them one tick came
\* too early and one sampled a NaN coordinate or came with the clock unmoved
C17_Witness ==
    /\ Len(publishes) >= 2
    /\ publishes[2].at - publishes[1].at = 150
    /\ lastBroadcastRef = publishes[2].at

\* C18: every publish was made from a point whose coordinates are both
\* finite numbers, and carries integer x and y.
IsInteger(c) == c.kind = "num" /\ c.v % 10 = 0

C18_FiniteCoordinates ==
    \A i \in DOMAIN publishes :
        /\ publishes[i].sampled[1].kind = "num"
        /\ publishes[i].sampled[2].kind = "num"
        /\ IsInteger(publishes[i].x)
        /\ IsInteger(publishes[i].y)

\* C19: when a presence publish has been rejected the status is "error".
C19_PublishRejected ==
    \A i \in DOMAIN publishes : publishes[i].status = "failed" => syncStatus = "error"

\* C20: the board shows "Connecting..." (loading) exactly as long as the
\* whiteboard subscription has delivered no batch: the first batch, empty or
\* not, clears it and no later batch sets it again.
C20_InitialSync ==
    loading <=> nRemote = 0

\* the only batch delivered so far was empty, and the board has left the
\* connecting state
C20_Witness ==
    /\ nRemote = 1
    /\ nEdits = 0
    /\ DOMAIN doc = {}
    /\ ~loading

\* C21: while the boundary is in the error state it shows a fallback view,
\* the status indicator is rendered, and the fallback offers the reset that
\* returns the boundary to its children, whether or not a custom fallback
\* is supplied.
C21_Containment ==
    hasError =>
        /\ BoundaryView # "children"
        /\ IndicatorRendered
        /\ TryAgainShown

\* a document after the records S of the store were merged into it
Merged(before, after, S) ==
    /\ DOMAIN after = (DOMAIN before) \cup S
    /\ \A id \in S : after[id] = serverDoc[id]
    /\ \A id \in (DOMAIN before) \ S : after[id] = before[id]

\* C22: when a remote batch is applied to a client's document, every record
\* of the batch is in the document afterwards with the batch's payload, and
\* every record whose id is not in the batch is as it was before, also when
\* the store no longer has it. The batch is a set S of records of the store.
C22_InboundMerge ==
    [][/\ nRemote' # nRemote => \E S \in SUBSET (DOMAIN serverDoc) : Merged(doc, doc', S)
       /\ \E S \in SUBSET (DOMAIN serverDoc) : Merged(docB, docB', S)]_vars

\* client A pushed r2, then pushed the removal of r2 together with r1;
\* client B, which had received r2, has received r1 and still has r2
C22_Witness ==
    /\ Len(flushes) = 2
    /\ flushes[2].status = "ok"
    /\ "r2" \in DOMAIN flushes[2].payload.removed
    /\ "r1" \in DOMAIN flushes[2].payload.added
    /\ "r1" \in DOMAIN docB
    /\ "r2" \in DOMAIN docB
    /\ "r2" \notin DOMAIN serverDoc

\* C23: when readOnly becomes true the timer is cleared and the cursors are
\* gone; as long as readOnly stays true the buffer and the notifications
\* absorbed do not change, no timer is armed, no timeout callback runs and
\* no push is issued, no presence publish is made and no presence callback
\* sets otherUsers; a remote batch delivered meanwhile is merged into the
\* document.
C23_ReadOnly ==
    [][/\ readOnly' =>
            /\ timeoutRef' = NoTimer
            /\ otherUsers' = <<>>
       /\ (readOnly /\ readOnly') =>
            /\ pendingChanges' = pendingChanges
            /\ window' = window
            /\ Len(flushes') = Len(flushes)
            /\ publishes' = publishes
            /\ lastPresence' = lastPresence
            /\ nRemote' # nRemote =>
                    \E S \in SUBSET (DOMAIN serverDoc) : Merged(doc, doc', S)]_vars

\* the board became read-only after a push of r1 and a presence publish; a
\* second edit of r1, made while read-only, was not absorbed and has been
\* overwritten by a remote batch, and nothing was pushed or published since
C23_Witness ==
    /\ readOnly
    /\ nToggles = 1
    /\ nEdits = 2
    /\ Len(AllEdits) = 1
    /\ Len(flushes) = 1
    /\ doc = serverDoc
    /\ DOMAIN doc = {"r1"}
    /\ sinceAbsorb = DebounceMs
    /\ Len(publishes) = 1
    /\ lastPresence.seen

====
